---- MODULE Spec2Model ----
(***************************************************************************)
(* Model of trieste's Bayesian optimization loop                           *)
(* (src/trieste/bayesian_optimizer.py).  One call of                       *)
(* SerialBayesianOptimizer.optimize is a state machine whose positions are *)
(* the statements of the method; the rule, the observer and the models are *)
(* external collaborators that return or raise nondeterministically.       *)
(***************************************************************************)
EXTENDS Integers, Sequences, FiniteSets, TLC

\* ------------------------------------------------------------------ bounds
MaxSteps == 2

\* --------------------------------------------------------------- constants
\* Python's None for an Optional[int] acquisition state.
NoneState == -1

\* ------------------------------------------------------------- input sets
AllTags == {"foo", "bar"}

\* A mapping of model specifications, as the sequence of its keys in
\* insertion order (a dict iterates in insertion order).
TagSeqs == {<<>>, <<"foo">>, <<"bar">>, <<"foo", "bar">>, <<"bar", "foo">>}

Points == {0, 1}

Observations == {0, 1}

RuleStates == {1, 2}

InitialStates == {NoneState, 0}

\* Exceptions a collaborator may raise: an ordinary error and one that
\* derives from BaseException only.
RaisedKinds == {"RuntimeError", "KeyboardInterrupt"}

\* ---------------------------------------------------------------- helpers
Range(s) == {s[i] : i \in 1..Len(s)}

EmptyMap == [t \in {} |-> 0]

Last(s) == s[Len(s)]

NoError == [kind |-> "None", site |-> "-", step |-> -1, tag |-> "-"]

Error(kind, site, st, tag) == [kind |-> kind, site |-> site, step |-> st, tag |-> tag]

\* Dataset(query_points, observations) with one row.
Dataset(x, y) == << <<x, y>> >>

\* variant: the new rows are put in front
DatasetAddInFront(a, b) == b \o a

\* Dataset.__add__: concatenation along the leading dimension.
DatasetAdd(a, b) == a \o b

VARIABLES
    num_steps,          \* argument
    datasets_arg,       \* argument datasets, as the caller passed it
    model_specs,        \* argument: keys of model_specs in insertion order
    state_arg,          \* argument acquisition_state
    track_state,        \* argument
    pc,                 \* position in optimize
    datasets,           \* local: tag -> Dataset
    models,             \* local: tag -> reference into model_heap
    model_heap,         \* the model objects: reference -> state
    history,            \* local: list of LoggingState
    step,               \* loop variable
    acquisition_state,  \* local
    query_points,       \* local
    observer_output,    \* local
    tag_idx,            \* position of the loop over models.items()
    result,             \* the Result returned (when pc = "returned")
    propagated,         \* the exception that left optimize (pc = "raised")
    thrown,             \* the last exception raised
    calls,              \* log of the calls to the collaborators
    entered,            \* log of the state entering each step
    outputs,            \* log of what the observer returned, in call order
    rule_in_place,      \* the rule updates the state object it is given
    dataset_heap,       \* the Dataset objects: reference -> rows
    mapping_heap,       \* the dict objects: reference -> (tag -> Dataset reference)
    datasets_ref,       \* the dict the local `datasets` is bound to
    state_heap,         \* the acquisition state objects: reference -> value
    state_ref,          \* the object `acquisition_state` is bound to (0: None)
    history_refs        \* per history entry, the objects it refers to

\* The state of one call of the single-objective BayesianOptimizer.optimize.
VARIABLES
    b_rule_arg,         \* argument acquisition_rule: "None" or "explicit"
    b_rule,             \* local rule: "EGO" or "explicit"
    b_pc,               \* position in BayesianOptimizer.optimize
    b_dataset,          \* local dataset
    b_model,            \* local model: reference into b_heap
    b_heap,             \* the model objects of this call
    b_history,          \* local history
    b_step,             \* loop variable
    b_state,            \* local acquisition_state
    b_query_points,     \* local query_points
    b_result,           \* the Result returned (when b_pc = "returned")
    b_propagated,       \* the exception that left optimize (b_pc = "raised")
    b_thrown,           \* the last exception raised
    b_calls,            \* log of the calls to the collaborators
    b_dataset_heap,     \* the Dataset objects of this call: reference -> rows
    b_dataset_ref,      \* the Dataset the local `dataset` is bound to
    b_history_refs      \* per history entry, the Dataset it refers to

serial_vars == <<num_steps, datasets_arg, model_specs, state_arg, track_state, pc,
                 datasets, models, model_heap, history, step, acquisition_state,
                 query_points, observer_output, tag_idx, result, propagated,
                 thrown, calls, entered, outputs, rule_in_place, dataset_heap,
                 mapping_heap, datasets_ref, state_heap, state_ref, history_refs>>

single_vars == <<b_rule_arg, b_rule, b_pc, b_dataset, b_model, b_heap, b_history,
                 b_step, b_state, b_query_points, b_result, b_propagated,
                 b_thrown, b_calls, b_dataset_heap, b_dataset_ref, b_history_refs>>

\* A search space in use, and the acquisition function builders.
VARIABLES
    space,              \* the search space constructed
    space_origin,       \* the Box a discretized space was made from, and n
    space_out,          \* the last operation on the space and its outcome
    acq                 \* the last prepare_acquisition_function and its outcome

space_vars == <<space, space_origin, space_out>>

acq_vars == <<acq>>

\* what a step of SerialBayesianOptimizer.optimize cannot touch
beyond_serial == <<single_vars, space_vars, acq_vars>>

\* what a step of BayesianOptimizer.optimize cannot touch
beyond_single == <<serial_vars, space_vars, acq_vars>>

\* what an operation of a search space cannot touch
beyond_space == <<serial_vars, single_vars, acq_vars>>

\* what an acquisition function builder cannot touch
beyond_acq == <<serial_vars, single_vars, space_vars>>

vars == <<serial_vars, single_vars, space_vars, acq_vars>>

args == <<num_steps, datasets_arg, model_specs, state_arg, track_state>>

\* the objects behind `datasets`
dataset_objects == <<dataset_heap, mapping_heap, datasets_ref>>

\* the objects behind `acquisition_state`
state_objects == <<state_heap, state_ref>>

\* the objects behind the single-objective variant's `dataset`
b_dataset_objects == <<b_dataset_heap, b_dataset_ref, b_history_refs>>

NoResult == [datasets |-> EmptyMap, models |-> EmptyMap, error |-> NoError]

Call(op, tag, arg, qp, st) ==
    [op |-> op, step |-> step, tag |-> tag, arg |-> arg, qp |-> qp, st |-> st]

\* ----------------------------------------------------- pieces of optimize
\* variant: only checks that every dataset has a model specification
KeysDifferSubsetOnly(ds, specs) == ~ (DOMAIN ds \subseteq Range(specs))

\* datasets.keys() != model_specs.keys()
KeysDiffer(ds, specs) == DOMAIN ds # Range(specs)

\* not datasets
IsEmpty(ds) == DOMAIN ds = {}

\* variant: the loop runs one step too many
RangeOffByOne(st, n) == st <= n

\* range(num_steps) has a next element after `st` steps were taken
RangeHasNext(st, n) == st < n

\* variant: the loop variable does not advance
SameStep(st) == st

\* range(num_steps) yields the next index
NextStep(st) == st + 1

\* variant: the snapshot is taken whatever track_state says
AlwaysSnapshot(track) == TRUE

\* if track_state:
ShouldSnapshot(track) == track

\* Python's exception hierarchy: the kinds that derive from Exception
ExceptionSubclasses == {"RuntimeError", "ValueError", "KeyError", "TypeError"}

\* variant: except KeyError
CaughtOnlyKeyError(kind) == kind = "KeyError"

\* except Exception: the kinds that are instances of Exception
Caught(kind) == kind \in ExceptionSubclasses

\* variant: the except block falls through to the next iteration
ExceptContinues == "loop"

\* the except block ends in a return
ExceptTarget == "returned"

\* variant: the Result is built from the caller's datasets
MakeResultFromArgs(ds, ms, err) == [datasets |-> datasets_arg, models |-> ms, error |-> err]

\* self.Result(datasets, models, error)
MakeResult(ds, ms, err) == [datasets |-> ds, models |-> ms, error |-> err]

\* the state of a freshly instantiated model
NewModel == [data |-> <<>>, refit |-> FALSE]

\* variant: every tag gets the same model instance
CreateModelRefsShared(specs) == [t \in Range(specs) |-> 1]

\* {tag: create_model_interface(spec) for tag, spec in model_specs.items()}
CreateModelRefs(specs) ==
    [t \in Range(specs) |-> CHOOSE i \in 1..Len(specs) : specs[i] = t]

CreateModelObjects(specs) == [i \in 1..Len(specs) |-> NewModel]

\* variant: the snapshot keeps references to the live models
DeepCopyAlias(ms) == ms

\* gpflow.utilities.deepcopy(models): the references of the copies
DeepCopyRefs(ms) ==
    [t \in DOMAIN ms |->
        Len(model_heap) + (CHOOSE i \in 1..Len(model_specs) : model_specs[i] = t)]

\* gpflow.utilities.deepcopy(models): the copied objects
DeepCopyObjects(ms) ==
    [i \in 1..Len(model_specs) |-> model_heap[ms[model_specs[i]]]]

\* variant: only the latest entry is kept
HistoryKeepsLatest(h, entry) == <<entry>>

\* history.append(entry)
HistoryAppend(h, entry) == Append(h, entry)

\* self.LoggingState(datasets, models, acquisition_state)
LoggingState(ds, ms, st) == [datasets |-> ds, models |-> ms, acquisition_state |-> st]

\* variant: the state returned by acquire is dropped
KeepState(old, returned) == old

\* query_points, acquisition_state = acquisition_rule.acquire(...)
AssignState(old, returned) == returned

\* variant: the observer's output is not added
MergeSkipped(ds, out) == [t \in DOMAIN out |-> ds[t]]

\* {tag: datasets[tag] + observer_output[tag] for tag in observer_output}
MergeDatasets(ds, out) == [t \in DOMAIN out |-> DatasetAdd(ds[t], out[t])]

\* variant: update does not take the dataset it is given
ModelUpdateKeepsData(m, ds) == [m EXCEPT !.refit = FALSE]

\* model.update(dataset)
ModelUpdate(m, ds) == [m EXCEPT !.data = ds, !.refit = FALSE]

\* variant: optimize leaves no trace on the model
ModelOptimizeNoRefit(m) == m

\* model.optimize()
ModelOptimize(m) == [m EXCEPT !.refit = TRUE]

\* ------------------------------------------------- objects and references
\* the order in which Dataset objects are allocated, one slot per tag
TagOrder == <<"foo", "bar">>

TagSlot(t) == CHOOSE i \in 1..Len(TagOrder) : TagOrder[i] = t

\* the Dataset objects of the caller's datasets
ArgDatasetObjects(ds) ==
    [i \in 1..Len(TagOrder) |-> IF TagOrder[i] \in DOMAIN ds THEN ds[TagOrder[i]] ELSE <<>>]

\* the caller's dict: tag -> Dataset object
ArgMapping(ds) == [t \in DOMAIN ds |-> TagSlot(t)]

\* Dataset.__add__ returns a new Dataset
AddedDatasetRef(heap, ref, t) == Len(heap) + TagSlot(t)

\* variant: the existing dict is updated
MergedMappingRefInPlace(heap, ref) == ref

\* the dict comprehension builds a new dict
MergedMappingRef(heap, ref) == Len(heap) + 1

\* the dict {tag: datasets[tag] + observer_output[tag] for tag in observer_output}
MergeMapping(heap, m, out) == [t \in DOMAIN out |-> AddedDatasetRef(heap, m[t], t)]

\* the Dataset objects once datasets[tag] + observer_output[tag] was evaluated
MergeDatasetObjects(heap, m, out) ==
    LET ext == heap \o [i \in 1..Len(TagOrder) |-> <<>>] IN
        [i \in 1..Len(ext) |->
            IF \E t \in DOMAIN out : AddedDatasetRef(heap, m[t], t) = i
            THEN LET t == CHOOSE u \in DOMAIN out : AddedDatasetRef(heap, m[u], u) = i
                 IN  DatasetAdd(heap[m[t]], out[t])
            ELSE ext[i]]

\* the dict objects once the comprehension was evaluated
MergeMappingObjects(heap, ref, new) ==
    [Append(heap, EmptyMap) EXCEPT ![MergedMappingRef(heap, ref)] = new]

\* the value of acquisition_state: None or the object's value
StateValue(heap, ref) == IF ref = 0 THEN NoneState ELSE heap[ref]

\* the caller's acquisition state object, if any
ArgStateObjects(st) == IF st = NoneState THEN <<>> ELSE <<st>>

ArgStateRef(st) == IF st = NoneState THEN 0 ELSE 1

\* variant: the entry keeps a reference to the live state object
StateRefAlias(heap, ref) == ref

\* copy.deepcopy(acquisition_state): None, or a new object
DeepCopyStateRef(heap, ref) == IF ref = 0 THEN 0 ELSE Len(heap) + 1

DeepCopyStateObjects(heap, ref) == IF ref = 0 THEN heap ELSE Append(heap, heap[ref])

\* the state object acquire returns: the one it was given, updated, when
\* the rule works in place, otherwise a new one
ReturnedStateRef(heap, ref, inplace) ==
    IF inplace /\ ref # 0 THEN ref ELSE Len(heap) + 1

ReturnedStateObjects(heap, ref, inplace, st) ==
    IF inplace /\ ref # 0 THEN [heap EXCEPT ![ref] = st] ELSE Append(heap, st)

\* what a history entry refers to besides its models
EntryRefs(ds, st) == [datasets |-> ds, state |-> st]

\* dataset += ... binds `dataset` to the new Dataset that __add__ returns
BAddedDatasetRef(heap, ref) == Len(heap) + 1

\* the values of the models a mapping refers to
Deref(ms) == [t \in DOMAIN ms |-> model_heap[ms[t]]]

\* ------------------------------------------------------- search spaces
\* bound on the number of points of a discrete space and of a sample
MaxSamples == 3

Coords == {0, 1, 2}

\* points of dimension 2
Grid == Coords \X Coords

Dims == {1, 2}

NoSpace == [kind |-> "none", lower |-> <<0, 0>>, upper |-> <<0, 0>>, points |-> {}]

NoOrigin == [lower |-> <<0, 0>>, upper |-> <<0, 0>>, n |-> -1]

NoSpaceOp == [op |-> "none", n |-> 0, point |-> <<0, 0>>, samples |-> <<>>,
              contained |-> FALSE, error |-> "None"]

\* no search space has been constructed
SpaceIdle ==
    /\ space = NoSpace
    /\ space_origin = NoOrigin
    /\ space_out = NoSpaceOp

\* ---------------------------------------- acquisition function builders
\* bound on the number of rows of a dataset given to a builder
MaxRows == 2

\* feasibility scores, in halves: 0, 0.5 and 1
Scores == {0, 1, 2}

\* observations of the datasets given to a builder
Values == {0, 1, 2}

\* tf.reduce_min of an empty tensor
Infinity == 99

NoAcq == [op |-> "none", tag |-> "-", datasets |-> EmptyMap, models |-> EmptyMap,
          scores |-> EmptyMap, bound |-> 0, error |-> "None", prepared |-> FALSE,
          dataset |-> <<>>, model |-> 0, eta |-> Infinity, evaluated |-> FALSE]

\* no acquisition function has been prepared
AcqIdle == acq = NoAcq

\* ------------------------------------------------------------------- Init
\* BayesianOptimizer.optimize has not been called
SingleIdle ==
    /\ b_rule_arg = "explicit"
    /\ b_rule = "explicit"
    /\ b_pc = "idle"
    /\ b_dataset = <<>>
    /\ b_model = 0
    /\ b_heap = <<>>
    /\ b_history = <<>>
    /\ b_step = 0
    /\ b_state = NoneState
    /\ b_query_points = 0
    /\ b_result = [dataset |-> <<>>, model |-> 0, error |-> NoError]
    /\ b_propagated = NoError
    /\ b_thrown = NoError
    /\ b_calls = <<>>
    /\ b_dataset_heap = <<>>
    /\ b_dataset_ref = 0
    /\ b_history_refs = <<>>

\* optimize has been called, with a rule of one of the given kinds
InitCall(in_place) ==
    /\ num_steps \in 0..MaxSteps
    /\ datasets_arg \in UNION {[T -> {Dataset(0, 0)}] : T \in SUBSET AllTags}
    /\ model_specs \in TagSeqs
    /\ state_arg \in InitialStates
    /\ track_state \in BOOLEAN
    /\ pc = "call"
    /\ datasets = datasets_arg
    /\ models = EmptyMap
    /\ model_heap = <<>>
    /\ history = <<>>
    /\ step = 0
    /\ acquisition_state = state_arg
    /\ query_points = 0
    /\ observer_output = EmptyMap
    /\ tag_idx = 1
    /\ result = NoResult
    /\ propagated = NoError
    /\ thrown = NoError
    /\ calls = <<>>
    /\ entered = <<>>
    /\ outputs = <<>>
    /\ rule_in_place \in in_place
    /\ dataset_heap = ArgDatasetObjects(datasets_arg)
    /\ mapping_heap = <<ArgMapping(datasets_arg)>>
    /\ datasets_ref = 1
    /\ state_heap = ArgStateObjects(state_arg)
    /\ state_ref = ArgStateRef(state_arg)
    /\ history_refs = <<>>
    /\ SingleIdle
    /\ SpaceIdle
    /\ AcqIdle

\* optimize has been called with a rule that returns new state objects
Init == InitCall({FALSE})

\* optimize has been called with a rule of either kind: one that returns new
\* state objects, or one that updates the state object it is given
InitObjects == InitCall(BOOLEAN)

\* ------------------------------------------------------------ raise/except
\* An exception raised inside the try block: the handler returns a Result
\* when the exception is an Exception, otherwise it leaves optimize.
Throw(err) ==
    /\ thrown' = err
    /\ IF Caught(err.kind)
       THEN /\ result' = MakeResult(datasets, models, err)
            /\ pc' = ExceptTarget
            /\ propagated' = propagated
       ELSE /\ propagated' = err
            /\ pc' = "raised"
            /\ result' = result

\* ---------------------------------------------------------------- actions
ValidateFails ==
    /\ pc = "call"
    /\ KeysDiffer(datasets, model_specs) \/ IsEmpty(datasets)
    /\ thrown' = Error("ValueError", "validate", -1, "-")
    /\ propagated' = thrown'
    /\ pc' = "raised"
    /\ UNCHANGED <<beyond_serial, args, rule_in_place, dataset_objects, state_objects,
                   history_refs, outputs, datasets, models, model_heap, history, step,
                   acquisition_state, query_points, observer_output, tag_idx,
                   result, calls, entered>>

ValidateOk ==
    /\ pc = "call"
    /\ ~ (KeysDiffer(datasets, model_specs) \/ IsEmpty(datasets))
    /\ pc' = "create"
    /\ UNCHANGED <<beyond_serial, args, rule_in_place, dataset_objects, state_objects,
                   history_refs, outputs, datasets, models, model_heap, history, step,
                   acquisition_state, query_points, observer_output, tag_idx,
                   result, propagated, thrown, calls, entered>>

CreateModels ==
    /\ pc = "create"
    /\ models' = CreateModelRefs(model_specs)
    /\ model_heap' = CreateModelObjects(model_specs)
    /\ history' = <<>>
    /\ step' = 0
    /\ pc' = "loop"
    /\ UNCHANGED <<beyond_serial, args, rule_in_place, dataset_objects, state_objects,
                   history_refs, outputs, datasets, acquisition_state, query_points,
                   observer_output, tag_idx, result, propagated, thrown,
                   calls, entered>>

StartStep ==
    /\ pc = "loop"
    /\ RangeHasNext(step, num_steps)
    /\ entered' = Append(entered, LoggingState(datasets, Deref(models), acquisition_state))
    /\ pc' = "snapshot"
    /\ UNCHANGED <<beyond_serial, args, rule_in_place, dataset_objects, state_objects,
                   history_refs, outputs, datasets, models, model_heap, history, step,
                   acquisition_state, query_points, observer_output, tag_idx,
                   result, propagated, thrown, calls>>

Finish ==
    /\ pc = "loop"
    /\ ~ RangeHasNext(step, num_steps)
    /\ result' = MakeResult(datasets, models, NoError)
    /\ pc' = "returned"
    /\ UNCHANGED <<beyond_serial, args, rule_in_place, dataset_objects, state_objects,
                   history_refs, outputs, datasets, models, model_heap, history, step,
                   acquisition_state, query_points, observer_output, tag_idx,
                   propagated, thrown, calls, entered>>

SkipSnapshot ==
    /\ pc = "snapshot"
    /\ ~ ShouldSnapshot(track_state)
    /\ pc' = "acquire"
    /\ UNCHANGED <<beyond_serial, args, rule_in_place, dataset_objects, state_objects,
                   history_refs, outputs, datasets, models, model_heap, history, step,
                   acquisition_state, query_points, observer_output, tag_idx,
                   result, propagated, thrown, calls, entered>>

SnapshotOk ==
    /\ pc = "snapshot"
    /\ ShouldSnapshot(track_state)
    /\ history' = HistoryAppend(history,
                         LoggingState(datasets, DeepCopyRefs(models), acquisition_state))
    /\ model_heap' = model_heap \o DeepCopyObjects(models)
    /\ history_refs' = HistoryAppend(history_refs,
                            EntryRefs(datasets_ref, DeepCopyStateRef(state_heap, state_ref)))
    /\ state_heap' = DeepCopyStateObjects(state_heap, state_ref)
    /\ pc' = "acquire"
    /\ UNCHANGED <<beyond_serial, args, rule_in_place, dataset_objects, state_ref,
                   outputs, datasets, models, step, acquisition_state,
                   query_points, observer_output, tag_idx, result, propagated,
                   thrown, calls, entered>>

SnapshotRaises ==
    /\ pc = "snapshot"
    /\ ShouldSnapshot(track_state)
    /\ \E k \in RaisedKinds : Throw(Error(k, "snapshot", step, "-"))
    /\ UNCHANGED <<beyond_serial, args, rule_in_place, dataset_objects, state_objects,
                   history_refs, outputs, datasets, models, model_heap, history, step,
                   acquisition_state, query_points, observer_output, tag_idx,
                   calls, entered>>

AcquireReturns ==
    /\ pc = "acquire"
    /\ \E qp \in Points, st \in RuleStates :
          /\ calls' = Append(calls, Call("acquire", "-", acquisition_state, qp, st))
          /\ query_points' = qp
          /\ acquisition_state' = AssignState(acquisition_state, st)
          /\ state_heap' = ReturnedStateObjects(state_heap, state_ref, rule_in_place, st)
          /\ state_ref' = AssignState(state_ref,
                                      ReturnedStateRef(state_heap, state_ref, rule_in_place))
    /\ pc' = "observe"
    /\ UNCHANGED <<beyond_serial, args, rule_in_place, dataset_objects,
                   history_refs, outputs, datasets, models, model_heap, history, step,
                   observer_output, tag_idx, result, propagated, thrown,
                   entered>>

AcquireRaises ==
    /\ pc = "acquire"
    /\ calls' = Append(calls, Call("acquire", "-", acquisition_state, 0, NoneState))
    /\ \E k \in RaisedKinds : Throw(Error(k, "acquire", step, "-"))
    /\ UNCHANGED <<beyond_serial, args, rule_in_place, dataset_objects, state_objects,
                   history_refs, outputs, datasets, models, model_heap, history, step,
                   acquisition_state, query_points, observer_output, tag_idx,
                   entered>>

ObserverReturns ==
    /\ pc = "observe"
    /\ calls' = Append(calls, Call("observer", "-", query_points, 0, NoneState))
    /\ \E T \in SUBSET AllTags :
          \E ys \in [T -> Observations] :
              observer_output' = [t \in T |-> Dataset(query_points, ys[t])]
    /\ outputs' = Append(outputs, observer_output')
    /\ pc' = "merge"
    /\ UNCHANGED <<beyond_serial, args, rule_in_place, dataset_objects, state_objects,
                   history_refs, datasets, models, model_heap, history, step,
                   acquisition_state, query_points, tag_idx, result,
                   propagated, thrown, entered>>

ObserverRaises ==
    /\ pc = "observe"
    /\ calls' = Append(calls, Call("observer", "-", query_points, 0, NoneState))
    /\ \E k \in RaisedKinds : Throw(Error(k, "observer", step, "-"))
    /\ UNCHANGED <<beyond_serial, args, rule_in_place, dataset_objects, state_objects,
                   history_refs, outputs, datasets, models, model_heap, history, step,
                   acquisition_state, query_points, observer_output, tag_idx,
                   entered>>

MergeOk ==
    /\ pc = "merge"
    /\ DOMAIN observer_output \subseteq DOMAIN datasets
    /\ datasets' = MergeDatasets(datasets, observer_output)
    /\ LET m == mapping_heap[datasets_ref] IN
          /\ dataset_heap' = MergeDatasetObjects(dataset_heap, m, observer_output)
          /\ mapping_heap' = MergeMappingObjects(mapping_heap, datasets_ref,
                                  MergeMapping(dataset_heap, m, observer_output))
          /\ datasets_ref' = MergedMappingRef(mapping_heap, datasets_ref)
    /\ tag_idx' = 1
    /\ pc' = "update"
    /\ UNCHANGED <<beyond_serial, args, rule_in_place, state_objects,
                   history_refs, outputs, models, model_heap, history, step, acquisition_state,
                   query_points, observer_output, result, propagated, thrown,
                   calls, entered>>

\* datasets[tag] for a tag of the observer output that datasets lacks
MergeKeyError ==
    /\ pc = "merge"
    /\ ~ (DOMAIN observer_output \subseteq DOMAIN datasets)
    /\ Throw(Error("KeyError", "merge", step, "-"))
    /\ UNCHANGED <<beyond_serial, args, rule_in_place, dataset_objects, state_objects,
                   history_refs, outputs, datasets, models, model_heap, history, step,
                   acquisition_state, query_points, observer_output, tag_idx,
                   calls, entered>>

\* for tag, model in models.items(): exhausted, the step is over
EndStep ==
    /\ pc = "update"
    /\ tag_idx > Len(model_specs)
    /\ step' = NextStep(step)
    /\ pc' = "loop"
    /\ UNCHANGED <<beyond_serial, args, rule_in_place, dataset_objects, state_objects,
                   history_refs, outputs, datasets, models, model_heap, history,
                   acquisition_state, query_points, observer_output, tag_idx,
                   result, propagated, thrown, calls, entered>>

\* datasets[tag] for a model's tag that the merged datasets lack
UpdateKeyError ==
    /\ pc = "update"
    /\ tag_idx <= Len(model_specs)
    /\ model_specs[tag_idx] \notin DOMAIN datasets
    /\ Throw(Error("KeyError", "update", step, model_specs[tag_idx]))
    /\ UNCHANGED <<beyond_serial, args, rule_in_place, dataset_objects, state_objects,
                   history_refs, outputs, datasets, models, model_heap, history, step,
                   acquisition_state, query_points, observer_output, tag_idx,
                   calls, entered>>

UpdateOk ==
    /\ pc = "update"
    /\ tag_idx <= Len(model_specs)
    /\ LET tag == model_specs[tag_idx] IN
          /\ tag \in DOMAIN datasets
          /\ calls' = Append(calls, Call("update", tag, 0, 0, NoneState))
          /\ model_heap' = [model_heap EXCEPT
                               ![models[tag]] = ModelUpdate(@, datasets[tag])]
    /\ pc' = "optimize"
    /\ UNCHANGED <<beyond_serial, args, rule_in_place, dataset_objects, state_objects,
                   history_refs, outputs, datasets, models, history, step, acquisition_state,
                   query_points, observer_output, tag_idx, result, propagated,
                   thrown, entered>>

UpdateRaises ==
    /\ pc = "update"
    /\ tag_idx <= Len(model_specs)
    /\ LET tag == model_specs[tag_idx] IN
          /\ tag \in DOMAIN datasets
          /\ calls' = Append(calls, Call("update", tag, 0, 0, NoneState))
          /\ \E k \in RaisedKinds : Throw(Error(k, "update", step, tag))
    /\ UNCHANGED <<beyond_serial, args, rule_in_place, dataset_objects, state_objects,
                   history_refs, outputs, datasets, models, model_heap, history, step,
                   acquisition_state, query_points, observer_output, tag_idx,
                   entered>>

OptimizeOk ==
    /\ pc = "optimize"
    /\ LET tag == model_specs[tag_idx] IN
          /\ calls' = Append(calls, Call("optimize", tag, 0, 0, NoneState))
          /\ model_heap' = [model_heap EXCEPT ![models[tag]] = ModelOptimize(@)]
    /\ tag_idx' = tag_idx + 1
    /\ pc' = "update"
    /\ UNCHANGED <<beyond_serial, args, rule_in_place, dataset_objects, state_objects,
                   history_refs, outputs, datasets, models, history, step, acquisition_state,
                   query_points, observer_output, result, propagated, thrown,
                   entered>>

OptimizeRaises ==
    /\ pc = "optimize"
    /\ LET tag == model_specs[tag_idx] IN
          /\ calls' = Append(calls, Call("optimize", tag, 0, 0, NoneState))
          /\ \E k \in RaisedKinds : Throw(Error(k, "optimize", step, tag))
    /\ UNCHANGED <<beyond_serial, args, rule_in_place, dataset_objects, state_objects,
                   history_refs, outputs, datasets, models, model_heap, history, step,
                   acquisition_state, query_points, observer_output, tag_idx,
                   entered>>

Next ==
    \/ ValidateFails
    \/ ValidateOk
    \/ CreateModels
    \/ StartStep
    \/ Finish
    \/ SkipSnapshot
    \/ SnapshotOk
    \/ SnapshotRaises
    \/ AcquireReturns
    \/ AcquireRaises
    \/ ObserverReturns
    \/ ObserverRaises
    \/ MergeOk
    \/ MergeKeyError
    \/ EndStep
    \/ UpdateKeyError
    \/ UpdateOk
    \/ UpdateRaises
    \/ OptimizeOk
    \/ OptimizeRaises

Spec == Init /\ [][Next]_vars

\* the serial optimize, with a rule of either kind
SpecObjects == InitObjects /\ [][Next]_vars

\* optimize runs on: a statement that can be executed is executed, and every
\* call to the rule, the observer or a model returns or raises
SpecLive == Spec /\ WF_vars(Next)

\* ------------------------------------------------------------ type sanity
TypeOK ==
    /\ pc \in {"call", "create", "loop", "snapshot", "acquire", "observe",
               "merge", "update", "optimize", "returned", "raised"}
    /\ step \in 0..num_steps
    /\ Len(history) <= num_steps

\* =========================================================================
\* BayesianOptimizer.optimize, the single-objective variant.  It is called
\* with the arguments of the serial call once that call is over, with a rule,
\* an observer and a model that answer as those of the serial call did.
\* =========================================================================
IsAcquireCall(c) == c.op = "acquire"

\* the tag of a serial call that has a single tag
TheTag == model_specs[1]

\* the serial call is over, had one tag, and its observer returned that tag
Comparable ==
    /\ pc \in {"returned", "raised"}
    /\ Len(model_specs) = 1
    /\ thrown.kind \notin {"KeyError", "ValueError"}

\* the collaborator called at `site` in step k raised
RaisesAt(site, k) == thrown.site = site /\ thrown.step = k

\* what the rule's acquire returned in step k
AcquireAnswer(k) ==
    LET A == SelectSeq(calls, IsAcquireCall) IN
        IF k + 1 <= Len(A) THEN A[k + 1] ELSE Call("acquire", "-", NoneState, 0, NoneState)

\* what the observer returned in step k
ObserverAnswer(k) ==
    IF TheTag \in DOMAIN datasets /\ k + 2 <= Len(datasets[TheTag])
    THEN datasets[TheTag][k + 2][2]
    ELSE 0

\* variant: the default rule hands out a state as an explicit rule does
RuleStateOfAnyRule(rule, st) == st

\* EfficientGlobalOptimization.acquire returns no state
RuleState(rule, st) == IF rule = "EGO" THEN NoneState ELSE st

BCall(op, arg, qp, st) ==
    [op |-> op, step |-> b_step, tag |-> "-", arg |-> arg, qp |-> qp, st |-> st]

\* self.Result(dataset, model, error)
BMakeResult(ds, m, err) == [dataset |-> ds, model |-> m, error |-> err]

\* self.LoggingState(dataset, model, acquisition_state)
BLoggingState(ds, m, st) == [dataset |-> ds, model |-> m, acquisition_state |-> st]

\* variant: the new observation replaces the dataset
BReplaceObservation(ds, qp, obs) == Dataset(qp, obs)

\* dataset += Dataset(query_points, self._observer(query_points))
BAppendObservation(ds, qp, obs) == DatasetAdd(ds, Dataset(qp, obs))

\* variant: a missing rule is accepted together with a state
BRuleTypeErrorNever(rule, st) == FALSE

\* acquisition_rule is None and acquisition_state is not None
BRuleTypeError(rule, st) == rule = "None" /\ st # NoneState

\* the except block of the single-objective variant
BThrow(err) ==
    /\ b_thrown' = err
    /\ IF Caught(err.kind)
       THEN /\ b_result' = BMakeResult(b_dataset, b_model, err)
            /\ b_pc' = ExceptTarget
            /\ b_propagated' = b_propagated
       ELSE /\ b_propagated' = err
            /\ b_pc' = "raised"
            /\ b_result' = b_result

BCallTypeError ==
    /\ b_pc = "idle"
    /\ Comparable
    /\ \E r \in {"None", "explicit"} :
          /\ BRuleTypeError(r, state_arg)
          /\ b_rule_arg' = r
    /\ b_thrown' = Error("TypeError", "validate", -1, "-")
    /\ b_propagated' = b_thrown'
    /\ b_pc' = "raised"
    /\ UNCHANGED <<beyond_single, b_dataset_objects, b_rule, b_dataset, b_model, b_heap, b_history,
                   b_step, b_state, b_query_points, b_result, b_calls>>

BCallOk ==
    /\ b_pc = "idle"
    /\ Comparable
    /\ \E r \in {"None", "explicit"} :
          /\ ~ BRuleTypeError(r, state_arg)
          /\ b_rule_arg' = r
          /\ b_rule' = IF r = "None" THEN "EGO" ELSE r
    /\ b_dataset' = datasets_arg[TheTag]
    /\ b_dataset_heap' = <<datasets_arg[TheTag]>>
    /\ b_dataset_ref' = 1
    /\ b_state' = state_arg
    /\ b_pc' = "create"
    /\ UNCHANGED <<beyond_single, b_history_refs, b_model, b_heap, b_history, b_step,
                   b_query_points, b_result, b_propagated, b_thrown, b_calls>>

BCreateModel ==
    /\ b_pc = "create"
    /\ b_model' = 1
    /\ b_heap' = <<NewModel>>
    /\ b_history' = <<>>
    /\ b_step' = 0
    /\ b_pc' = "loop"
    /\ UNCHANGED <<beyond_single, b_dataset_objects, b_rule_arg, b_rule, b_dataset, b_state,
                   b_query_points, b_result, b_propagated, b_thrown, b_calls>>

BStartStep ==
    /\ b_pc = "loop"
    /\ RangeHasNext(b_step, num_steps)
    /\ b_pc' = "snapshot"
    /\ UNCHANGED <<beyond_single, b_dataset_objects, b_rule_arg, b_rule, b_dataset, b_model, b_heap,
                   b_history, b_step, b_state, b_query_points, b_result,
                   b_propagated, b_thrown, b_calls>>

BFinish ==
    /\ b_pc = "loop"
    /\ ~ RangeHasNext(b_step, num_steps)
    /\ b_result' = BMakeResult(b_dataset, b_model, NoError)
    /\ b_pc' = "returned"
    /\ UNCHANGED <<beyond_single, b_dataset_objects, b_rule_arg, b_rule, b_dataset, b_model, b_heap,
                   b_history, b_step, b_state, b_query_points, b_propagated,
                   b_thrown, b_calls>>

BSkipSnapshot ==
    /\ b_pc = "snapshot"
    /\ ~ ShouldSnapshot(track_state)
    /\ b_pc' = "acquire"
    /\ UNCHANGED <<beyond_single, b_dataset_objects, b_rule_arg, b_rule, b_dataset, b_model, b_heap,
                   b_history, b_step, b_state, b_query_points, b_result,
                   b_propagated, b_thrown, b_calls>>

BSnapshotOk ==
    /\ b_pc = "snapshot"
    /\ ShouldSnapshot(track_state)
    /\ ~ RaisesAt("snapshot", b_step)
    /\ b_history' = Append(b_history,
                           BLoggingState(b_dataset, Len(b_heap) + 1, b_state))
    /\ b_heap' = Append(b_heap, b_heap[b_model])
    /\ b_history_refs' = Append(b_history_refs, b_dataset_ref)
    /\ b_pc' = "acquire"
    /\ UNCHANGED <<beyond_single, b_dataset_heap, b_dataset_ref, b_rule_arg, b_rule, b_dataset, b_model, b_step,
                   b_state, b_query_points, b_result, b_propagated, b_thrown,
                   b_calls>>

BSnapshotRaises ==
    /\ b_pc = "snapshot"
    /\ ShouldSnapshot(track_state)
    /\ RaisesAt("snapshot", b_step)
    /\ BThrow(Error(thrown.kind, "snapshot", b_step, "-"))
    /\ UNCHANGED <<beyond_single, b_dataset_objects, b_rule_arg, b_rule, b_dataset, b_model, b_heap,
                   b_history, b_step, b_state, b_query_points, b_calls>>

BAcquireReturns ==
    /\ b_pc = "acquire"
    /\ ~ RaisesAt("acquire", b_step)
    /\ LET a == AcquireAnswer(b_step) IN
          /\ b_calls' = Append(b_calls,
                               BCall("acquire", b_state, a.qp, RuleState(b_rule, a.st)))
          /\ b_query_points' = a.qp
          /\ b_state' = AssignState(b_state, RuleState(b_rule, a.st))
    /\ b_pc' = "observe"
    /\ UNCHANGED <<beyond_single, b_dataset_objects, b_rule_arg, b_rule, b_dataset, b_model, b_heap,
                   b_history, b_step, b_result, b_propagated, b_thrown>>

BAcquireRaises ==
    /\ b_pc = "acquire"
    /\ RaisesAt("acquire", b_step)
    /\ b_calls' = Append(b_calls, BCall("acquire", b_state, 0, NoneState))
    /\ BThrow(Error(thrown.kind, "acquire", b_step, "-"))
    /\ UNCHANGED <<beyond_single, b_dataset_objects, b_rule_arg, b_rule, b_dataset, b_model, b_heap,
                   b_history, b_step, b_state, b_query_points>>

BObserverReturns ==
    /\ b_pc = "observe"
    /\ ~ RaisesAt("observer", b_step)
    /\ b_calls' = Append(b_calls, BCall("observer", b_query_points, 0, NoneState))
    /\ b_dataset' = BAppendObservation(b_dataset, b_query_points, ObserverAnswer(b_step))
    /\ b_dataset_ref' = BAddedDatasetRef(b_dataset_heap, b_dataset_ref)
    /\ b_dataset_heap' =
          [Append(b_dataset_heap, <<>>) EXCEPT
              ![BAddedDatasetRef(b_dataset_heap, b_dataset_ref)] =
                  BAppendObservation(b_dataset_heap[b_dataset_ref], b_query_points,
                                     ObserverAnswer(b_step))]
    /\ b_pc' = "update"
    /\ UNCHANGED <<beyond_single, b_history_refs, b_rule_arg, b_rule, b_model, b_heap, b_history,
                   b_step, b_state, b_query_points, b_result, b_propagated,
                   b_thrown>>

BObserverRaises ==
    /\ b_pc = "observe"
    /\ RaisesAt("observer", b_step)
    /\ b_calls' = Append(b_calls, BCall("observer", b_query_points, 0, NoneState))
    /\ BThrow(Error(thrown.kind, "observer", b_step, "-"))
    /\ UNCHANGED <<beyond_single, b_dataset_objects, b_rule_arg, b_rule, b_dataset, b_model, b_heap,
                   b_history, b_step, b_state, b_query_points>>

BUpdateOk ==
    /\ b_pc = "update"
    /\ ~ RaisesAt("update", b_step)
    /\ b_calls' = Append(b_calls, BCall("update", 0, 0, NoneState))
    /\ b_heap' = [b_heap EXCEPT ![b_model] = ModelUpdate(@, b_dataset)]
    /\ b_pc' = "optimize"
    /\ UNCHANGED <<beyond_single, b_dataset_objects, b_rule_arg, b_rule, b_dataset, b_model,
                   b_history, b_step, b_state, b_query_points, b_result,
                   b_propagated, b_thrown>>

BUpdateRaises ==
    /\ b_pc = "update"
    /\ RaisesAt("update", b_step)
    /\ b_calls' = Append(b_calls, BCall("update", 0, 0, NoneState))
    /\ BThrow(Error(thrown.kind, "update", b_step, "-"))
    /\ UNCHANGED <<beyond_single, b_dataset_objects, b_rule_arg, b_rule, b_dataset, b_model, b_heap,
                   b_history, b_step, b_state, b_query_points>>

BOptimizeOk ==
    /\ b_pc = "optimize"
    /\ ~ RaisesAt("optimize", b_step)
    /\ b_calls' = Append(b_calls, BCall("optimize", 0, 0, NoneState))
    /\ b_heap' = [b_heap EXCEPT ![b_model] = ModelOptimize(@)]
    /\ b_step' = b_step + 1
    /\ b_pc' = "loop"
    /\ UNCHANGED <<beyond_single, b_dataset_objects, b_rule_arg, b_rule, b_dataset, b_model,
                   b_history, b_state, b_query_points, b_result, b_propagated,
                   b_thrown>>

BOptimizeRaises ==
    /\ b_pc = "optimize"
    /\ RaisesAt("optimize", b_step)
    /\ b_calls' = Append(b_calls, BCall("optimize", 0, 0, NoneState))
    /\ BThrow(Error(thrown.kind, "optimize", b_step, "-"))
    /\ UNCHANGED <<beyond_single, b_dataset_objects, b_rule_arg, b_rule, b_dataset, b_model, b_heap,
                   b_history, b_step, b_state, b_query_points>>

NextPair ==
    \/ ValidateFails
    \/ ValidateOk
    \/ CreateModels
    \/ StartStep
    \/ Finish
    \/ SkipSnapshot
    \/ SnapshotOk
    \/ SnapshotRaises
    \/ AcquireReturns
    \/ AcquireRaises
    \/ ObserverReturns
    \/ ObserverRaises
    \/ MergeOk
    \/ MergeKeyError
    \/ EndStep
    \/ UpdateKeyError
    \/ UpdateOk
    \/ UpdateRaises
    \/ OptimizeOk
    \/ OptimizeRaises
    \/ BCallTypeError
    \/ BCallOk
    \/ BCreateModel
    \/ BStartStep
    \/ BFinish
    \/ BSkipSnapshot
    \/ BSnapshotOk
    \/ BSnapshotRaises
    \/ BAcquireReturns
    \/ BAcquireRaises
    \/ BObserverReturns
    \/ BObserverRaises
    \/ BUpdateOk
    \/ BUpdateRaises
    \/ BOptimizeOk
    \/ BOptimizeRaises

\* both variants, the single-objective one called after the serial one
SpecPair == Init /\ [][NextPair]_vars


\* =========================================================================
\* Search spaces: DiscreteSearchSpace and Box (trieste.space).
\* =========================================================================
ProbePoints == Grid \cup {<<0, 0, 0>>}

\* Box.__init__ requires lower < upper in every component
BoundsValid(lo, hi) == \A i \in Dims : lo[i] < hi[i]

\* variant: the bounds are exclusive
BoxContainsStrict(lo, hi, p) == \A i \in Dims : lo[i] < p[i] /\ p[i] < hi[i]

\* Box.__contains__
BoxContains(lo, hi, p) == \A i \in Dims : lo[i] <= p[i] /\ p[i] <= hi[i]

\* DiscreteSearchSpace.__contains__
DiscreteContains(points, p) == p \in points

\* point in search_space
Contains(sp, p) ==
    IF sp.kind = "box" THEN BoxContains(sp.lower, sp.upper, p)
    ELSE DiscreteContains(sp.points, p)

\* the points of the model that lie in a box
BoxPoints(lo, hi) == {p \in Grid : BoxContains(lo, hi, p)}

\* the points sample draws from
SamplePool(sp) == IF sp.kind = "box" THEN BoxPoints(sp.lower, sp.upper) ELSE sp.points

\* DiscreteSearchSpace.sample: more samples requested than points held
TooManySamples(sp, n) == sp.kind = "discrete" /\ n > Cardinality(sp.points)

\* variant: sample draws with replacement
AnySamples(pool, n) == [1..n -> pool]

\* sample(n): the possible results, n pairwise distinct points of the space
UniqueSamples(pool, n) ==
    {q \in [1..n -> pool] : \A i, j \in 1..n : i # j => q[i] # q[j]}

\* variant: discretize keeps every point of the box
DiscretizedWholeBox(lo, hi, samples) == BoxPoints(lo, hi)

\* Box.discretize: the points of the DiscreteSearchSpace it returns
Discretized(lo, hi, samples) == Range(samples)

\* sample and membership leave the space as it is: one query of each space
\* constructed shows what any later one would
NotQueried == space_out.op \in {"new", "discretize"}

SpaceOp(op, n, p, q, c, e) ==
    [op |-> op, n |-> n, point |-> p, samples |-> q, contained |-> c, error |-> e]

NewDiscrete ==
    /\ space.kind = "none"
    /\ \E P \in SUBSET Grid :
          /\ Cardinality(P) <= MaxSamples
          /\ space' = [NoSpace EXCEPT !.kind = "discrete", !.points = P]
    /\ space_out' = SpaceOp("new", 0, <<0, 0>>, <<>>, FALSE, "None")
    /\ UNCHANGED <<beyond_space, space_origin>>

NewBox ==
    /\ space.kind = "none"
    /\ \E lo \in Grid, hi \in Grid :
          /\ BoundsValid(lo, hi)
          /\ space' = [NoSpace EXCEPT !.kind = "box", !.lower = lo, !.upper = hi]
    /\ space_out' = SpaceOp("new", 0, <<0, 0>>, <<>>, FALSE, "None")
    /\ UNCHANGED <<beyond_space, space_origin>>

NewBoxFails ==
    /\ space.kind = "none"
    /\ \E lo \in Grid, hi \in Grid : ~ BoundsValid(lo, hi)
    /\ space_out' = SpaceOp("new", 0, <<0, 0>>, <<>>, FALSE, "ValueError")
    /\ UNCHANGED <<beyond_space, space, space_origin>>

SampleOk ==
    /\ space.kind # "none"
    /\ NotQueried
    /\ \E n \in 0..MaxSamples :
          /\ ~ TooManySamples(space, n)
          /\ \E q \in UniqueSamples(SamplePool(space), n) :
                space_out' = SpaceOp("sample", n, <<0, 0>>, q, FALSE, "None")
    /\ UNCHANGED <<beyond_space, space, space_origin>>

SampleFails ==
    /\ space.kind # "none"
    /\ NotQueried
    /\ \E n \in 0..(MaxSamples + 1) :
          /\ TooManySamples(space, n)
          /\ space_out' = SpaceOp("sample", n, <<0, 0>>, <<>>, FALSE, "ValueError")
    /\ UNCHANGED <<beyond_space, space, space_origin>>

Discretize ==
    /\ space.kind = "box"
    /\ NotQueried
    /\ \E n \in 0..MaxSamples :
          \E q \in UniqueSamples(SamplePool(space), n) :
              /\ space' = [NoSpace EXCEPT !.kind = "discrete",
                                          !.points = Discretized(space.lower, space.upper, q)]
              /\ space_origin' = [lower |-> space.lower, upper |-> space.upper, n |-> n]
              /\ space_out' = SpaceOp("discretize", n, <<0, 0>>, <<>>, FALSE, "None")
    /\ UNCHANGED beyond_space

ContainsPoint ==
    /\ space.kind # "none"
    /\ NotQueried
    /\ \E p \in Grid :
          space_out' = SpaceOp("contains", 0, p, <<>>, Contains(space, p), "None")
    /\ UNCHANGED <<beyond_space, space, space_origin>>

\* a point whose shape differs from that of the bounds
ContainsShapeError ==
    /\ space.kind = "box"
    /\ NotQueried
    /\ \E p \in ProbePoints :
          /\ Len(p) # Len(space.lower)
          /\ space_out' = SpaceOp("contains", 0, <<0, 0>>, <<>>, FALSE, "ValueError")
    /\ UNCHANGED <<beyond_space, space, space_origin>>

NextSpace ==
    \/ NewDiscrete
    \/ NewBox
    \/ NewBoxFails
    \/ SampleOk
    \/ SampleFails
    \/ Discretize
    \/ ContainsPoint
    \/ ContainsShapeError

\* no optimizer is running: its arguments are fixed
NoOptimizerCall ==
    /\ num_steps = 0
    /\ datasets_arg = EmptyMap
    /\ model_specs = <<>>
    /\ state_arg = NoneState
    /\ ~ track_state

InitSpace == Init /\ NoOptimizerCall

SpecSpace == InitSpace /\ [][NextSpace]_vars


\* =========================================================================
\* Acquisition function builders: using(tag) and
\* ExpectedConstrainedImprovement (trieste.acquisition.function).
\* =========================================================================
\* the datasets a builder may be given: up to MaxRows rows <<point, observation>>
RowSeqs(n) == UNION {[1..k -> Points \X Values] : k \in 0..n}

BuilderDatasets == RowSeqs(MaxRows)

ModelIds == {1, 2}

\* variant: the adapter hands over the entry of some key of the mapping
UsingLookupAnyKey(map, tag) == map[CHOOSE t \in DOMAIN map : t # tag \/ DOMAIN map = {tag}]

\* using(tag): the adapter looks up exactly map[tag]
UsingLookup(map, tag) == map[tag]

\* the lookup of tag raises KeyError
KeyMissing(ds, ms, tag) == tag \notin DOMAIN ds \/ tag \notin DOMAIN ms

\* variant: the bound is exclusive
FeasibleStrict(score, bound) == score > bound

\* a point is feasible when its constraint score is at or above the bound
Feasible(score, bound) == score >= bound

\* the rows of the dataset whose point the constraint function scores feasible
FeasibleRows(rows, scores, bound) ==
    {i \in 1..Len(rows) : Feasible(scores[rows[i][1]], bound)}

MinOf(S) == IF S = {} THEN Infinity ELSE CHOOSE m \in S : \A v \in S : m <= v

\* eta: the minimum observation among the feasible rows
Eta(rows, scores, bound) ==
    MinOf({rows[i][2] : i \in FeasibleRows(rows, scores, bound)})

\* variant: only an empty dataset is refused
InsufficientOnlyEmpty(rows, scores, bound) == Len(rows) = 0

\* the dataset is empty or holds no feasible point
Insufficient(rows, scores, bound) ==
    \/ Len(rows) = 0
    \/ FeasibleRows(rows, scores, bound) = {}

\* the mappings a caller hands to prepare_acquisition_function
TaggedDatasets == UNION {[T -> BuilderDatasets] : T \in SUBSET AllTags}

TaggedModels == UNION {[T -> ModelIds] : T \in SUBSET AllTags}

AcqCall(op, tag, ds, ms, sc, b) ==
    [NoAcq EXCEPT !.op = op, !.tag = tag, !.datasets = ds, !.models = ms,
                  !.scores = sc, !.bound = b]

\* builder.using(tag).prepare_acquisition_function(datasets, models), tag present
PrepareUsing ==
    /\ acq.op = "none"
    /\ \E tag \in AllTags, ds \in TaggedDatasets, ms \in TaggedModels :
          /\ ~ KeyMissing(ds, ms, tag)
          /\ acq' = [AcqCall("using", tag, ds, ms, EmptyMap, 0) EXCEPT
                        !.prepared = TRUE,
                        !.dataset = UsingLookup(ds, tag),
                        !.model = UsingLookup(ms, tag)]
    /\ UNCHANGED beyond_acq

\* the same call with the tag absent: KeyError, the wrapped builder is not run
PrepareUsingKeyError ==
    /\ acq.op = "none"
    /\ \E tag \in AllTags, ds \in TaggedDatasets, ms \in TaggedModels :
          /\ KeyMissing(ds, ms, tag)
          /\ acq' = [AcqCall("using", tag, ds, ms, EmptyMap, 0) EXCEPT
                        !.error = "KeyError"]
    /\ UNCHANGED beyond_acq

\* the dataset of tag and placeholder datasets under the other keys
EciDatasets(T, tag, rows) == [t \in T |-> IF t = tag THEN rows ELSE Dataset(0, 0)]

\* ExpectedConstrainedImprovement(tag, constraint, bound)
\*     .prepare_acquisition_function(datasets, models) returns a function
PrepareEci ==
    /\ acq.op = "none"
    /\ \E tag \in AllTags, T \in SUBSET AllTags, ms \in TaggedModels,
          rows \in BuilderDatasets, sc \in [Points -> Scores], b \in Scores :
          LET ds == EciDatasets(T, tag, rows) IN
          /\ ~ KeyMissing(ds, ms, tag)
          /\ ~ Insufficient(ds[tag], sc, b)
          /\ acq' = [AcqCall("eci", tag, ds, ms, sc, b) EXCEPT
                        !.prepared = TRUE,
                        !.dataset = ds[tag],
                        !.model = ms[tag],
                        !.eta = Eta(ds[tag], sc, b)]
    /\ UNCHANGED beyond_acq

\* the same call on an empty dataset or one without a feasible point
PrepareEciValueError ==
    /\ acq.op = "none"
    /\ \E tag \in AllTags, T \in SUBSET AllTags, ms \in TaggedModels,
          rows \in BuilderDatasets, sc \in [Points -> Scores], b \in Scores :
          LET ds == EciDatasets(T, tag, rows) IN
          /\ ~ KeyMissing(ds, ms, tag)
          /\ Insufficient(ds[tag], sc, b)
          /\ acq' = [AcqCall("eci", tag, ds, ms, sc, b) EXCEPT
                        !.error = "ValueError"]
    /\ UNCHANGED beyond_acq

\* the same call with the tag absent from a mapping
PrepareEciKeyError ==
    /\ acq.op = "none"
    /\ \E tag \in AllTags, T \in SUBSET AllTags, ms \in TaggedModels,
          rows \in BuilderDatasets, sc \in [Points -> Scores], b \in Scores :
          LET ds == EciDatasets(T, tag, rows) IN
          /\ KeyMissing(ds, ms, tag)
          /\ acq' = [AcqCall("eci", tag, ds, ms, sc, b) EXCEPT
                        !.error = "KeyError"]
    /\ UNCHANGED beyond_acq

\* the caller evaluates the acquisition function it was returned
EvaluateAcquisition ==
    /\ acq.prepared
    /\ ~ acq.evaluated
    /\ acq' = [acq EXCEPT !.evaluated = TRUE]
    /\ UNCHANGED beyond_acq

NextAcquisition ==
    \/ PrepareUsing
    \/ PrepareUsingKeyError
    \/ PrepareEci
    \/ PrepareEciValueError
    \/ PrepareEciKeyError
    \/ EvaluateAcquisition

InitAcquisition == Init /\ NoOptimizerCall

SpecAcquisition == InitAcquisition /\ [][NextAcquisition]_vars


\* ------------------------------------------------------------------ claims
CallsOf(op) == {i \in 1..Len(calls) : calls[i].op = op}

IsAcquire(c) == c.op = "acquire"

AcquireCalls == SelectSeq(calls, IsAcquire)

\* C1: in a run that returns without any step having raised, the observer
\* was called exactly num_steps times, once in each step 0 .. num_steps-1.
C1_ObserverOncePerStep ==
    (pc = "returned" /\ thrown = NoError) =>
        /\ Cardinality(CallsOf("observer")) = num_steps
        /\ \A k \in 0..(num_steps - 1) :
              Cardinality({i \in CallsOf("observer") : calls[i].step = k}) = 1

C1_Witness ==
    /\ pc = "returned"
    /\ thrown = NoError
    /\ num_steps >= 2
    /\ Cardinality(CallsOf("observer")) = num_steps

\* C2 (as stated): every exception raised inside a step's body ends in a
\* normal return with Result.error set to it; none reaches the caller.
C2_AnyExceptionCaught ==
    (thrown # NoError /\ thrown.site # "validate") =>
        /\ pc = "returned"
        /\ result.error = thrown
        /\ propagated = NoError

\* C2 (amended): an exception raised inside a step's body that is an
\* instance of Exception ends in a normal return with Result.error set to
\* it and does not reach the caller; one that derives from BaseException
\* only (KeyboardInterrupt) leaves optimize and no Result is returned.
C2_ExceptionInstancesCaught ==
    (thrown # NoError /\ thrown.site # "validate") =>
        IF thrown.kind \in ExceptionSubclasses
        THEN pc = "returned" /\ result.error = thrown /\ propagated = NoError
        ELSE pc = "raised" /\ propagated = thrown /\ result = NoResult

C2_Witness ==
    /\ pc = "returned"
    /\ result.error.kind = "RuntimeError"
    /\ result.error.site = "observer"
    /\ propagated = NoError

\* C3: once a step has raised, no further call is made to the rule, the
\* observer or any model: the log of calls never grows again.
C3_NoCallAfterRaise == [][thrown # NoError => calls' = calls]_vars

C3_Witness ==
    /\ pc = "returned"
    /\ thrown.site = "acquire"
    /\ thrown.step + 1 < num_steps

\* C4: when the keys of datasets and model_specs differ, or both are empty,
\* optimize raises ValueError to the caller, returns no Result, and has
\* instantiated no model and called neither the rule nor the observer.
C4_ValidationFailsFirst ==
    (DOMAIN datasets_arg # Range(model_specs)
        \/ (DOMAIN datasets_arg = {} /\ model_specs = <<>>)) =>
        /\ pc \in {"call", "raised"}
        /\ pc = "raised" =>
              propagated.kind = "ValueError" /\ propagated.site = "validate"
        /\ result = NoResult
        /\ model_heap = <<>>
        /\ models = EmptyMap
        /\ calls = <<>>

C4_Witness ==
    /\ pc = "raised"
    /\ propagated.kind = "ValueError"
    /\ DOMAIN datasets_arg = {"foo"}
    /\ model_specs = <<"foo", "bar">>
    /\ num_steps >= 1

\* C5 (as stated): the merge concatenates the observer's output onto the
\* dataset of every tag it returned, and every other tag of datasets stays
\* present with its dataset unchanged.
C5_MergeKeepsOtherTags ==
    [][(pc = "merge" /\ pc' = "update") =>
          /\ \A t \in DOMAIN observer_output :
                /\ t \in DOMAIN datasets'
                /\ datasets'[t] = datasets[t] \o observer_output[t]
          /\ \A t \in DOMAIN datasets \ DOMAIN observer_output :
                /\ t \in DOMAIN datasets'
                /\ datasets'[t] = datasets[t]]_vars

\* C6: the Result of a failed step carries the datasets of the point of
\* failure: those entering the step when the snapshot, acquire or the
\* observer failed, the merged ones when a model update or optimize failed;
\* its error is the exception raised.
C6_ResultAtPointOfFailure ==
    (pc = "returned" /\ result.error # NoError) =>
        LET e == result.error
            before == entered[e.step + 1].datasets
        IN  /\ e = thrown
            /\ Len(entered) = e.step + 1
            /\ result.models = models
            /\ e.site \in {"snapshot", "acquire", "observer"} =>
                  result.datasets = before
            /\ e.site \in {"update", "optimize"} =>
                  /\ DOMAIN result.datasets = DOMAIN observer_output
                  /\ \A t \in DOMAIN observer_output :
                        result.datasets[t] = before[t] \o observer_output[t]

C6_Witness ==
    /\ pc = "returned"
    /\ result.error.site = "optimize"
    /\ result.error.step = 1
    /\ \A t \in DOMAIN result.datasets : Len(result.datasets[t]) = 3

\* C7: acquire receives the caller's acquisition_state in step 0 and, in
\* every later step, the state acquire returned in the step before; with
\* tracking, history[k].acquisition_state is the state received in step k.
C7_StateThreaded ==
    LET A == AcquireCalls IN
        /\ \A i \in 1..Len(A) : A[i].step = i - 1
        /\ Len(A) >= 1 => A[1].arg = state_arg
        /\ \A i \in 1..(Len(A) - 1) : A[i + 1].arg = A[i].st
        /\ track_state =>
              \A i \in 1..Len(A) :
                  /\ i <= Len(history)
                  /\ history[i].acquisition_state = A[i].arg

C7_Witness ==
    /\ track_state
    /\ state_arg = 0
    /\ Len(AcquireCalls) = 2
    /\ AcquireCalls[1].arg = 0
    /\ AcquireCalls[2].arg = 2
    /\ history[2].acquisition_state = 2

\* C8: when all num_steps steps completed without an exception, Result.error
\* is None and history has num_steps entries with tracking, none without.
C8_HistoryLengthOnSuccess ==
    (pc = "returned" /\ thrown = NoError) =>
        /\ result.error = NoError
        /\ step = num_steps
        /\ Len(history) = IF track_state THEN num_steps ELSE 0

C8_Witness ==
    /\ pc = "returned"
    /\ thrown = NoError
    /\ ~ track_state
    /\ num_steps >= 2
    /\ history = <<>>

\* C9: with tracking, the k-th history entry holds the datasets, the model
\* states and the acquisition state entering step k (the first one the
\* caller's inputs), and there is never an entry beyond the steps started.
C9_SnapshotBeforeStep ==
    /\ Len(history) <= Len(entered)
    /\ Len(history) <= num_steps
    /\ \A k \in 1..Len(history) :
          /\ history[k].datasets = entered[k].datasets
          /\ Deref(history[k].models) = entered[k].models
          /\ history[k].acquisition_state = entered[k].acquisition_state
    /\ Len(history) >= 1 =>
          /\ history[1].datasets = datasets_arg
          /\ history[1].acquisition_state = state_arg
    /\ (track_state /\ pc \in {"acquire", "observe", "merge", "update", "optimize"}) =>
          Len(history) = step + 1
    /\ (pc = "returned" /\ thrown = NoError) => Len(history) <= step

C9_Witness ==
    /\ pc = "returned"
    /\ thrown = NoError
    /\ Len(history) = 2
    /\ history[2].datasets # history[1].datasets
    /\ Deref(history[2].models) # Deref(history[1].models)

\* C10 (as stated): after a return with an error and tracking enabled, the
\* datasets of the Result and the last history entry (which holds the only
\* acquisition state returned) belong to the same step boundary.
C10_ConsistentRestartPoint ==
    (pc = "returned" /\ result.error # NoError /\ track_state /\ history # <<>>) =>
        result.datasets = Last(history).datasets

\* the calls of the serial variant, without their tags
UntaggedCalls == [i \in 1..Len(calls) |-> [calls[i] EXCEPT !.tag = "-"]]

\* C11: given an explicit rule, the single-objective optimize ends as the
\* serial optimize with one tag does: the same sequence of acquire, observer,
\* update and optimize calls, the same dataset and model state, the same
\* history length and acquisition states, the same error and the same way of
\* leaving (return or raise).
C11_SingleMatchesSerial ==
    (b_pc \in {"returned", "raised"} /\ b_rule_arg = "explicit") =>
        /\ b_pc = pc
        /\ b_calls = UntaggedCalls
        /\ b_dataset = datasets[TheTag]
        /\ b_heap[b_model] = model_heap[models[TheTag]]
        /\ Len(b_history) = Len(history)
        /\ \A k \in 1..Len(b_history) :
              /\ b_history[k].acquisition_state = history[k].acquisition_state
              /\ b_history[k].dataset = history[k].datasets[TheTag]
              /\ b_heap[b_history[k].model] = model_heap[history[k].models[TheTag]]
        /\ b_thrown = [thrown EXCEPT !.tag = "-"]
        /\ b_propagated = [propagated EXCEPT !.tag = "-"]
        /\ b_result.error = [result.error EXCEPT !.tag = "-"]
        /\ b_pc = "returned" =>
              /\ b_result.dataset = result.datasets[TheTag]
              /\ b_heap[b_result.model] = model_heap[result.models[TheTag]]

C11_Witness ==
    /\ b_pc = "returned"
    /\ b_rule_arg = "explicit"
    /\ b_result.error.site = "optimize"
    /\ b_result.error.step = 1
    /\ Len(b_result.dataset) = 3
    /\ Len(b_history) = 2
    /\ b_history[2].acquisition_state = 2

\* the position of a tag in the model mapping
TagIndex(t) == CHOOSE i \in 1..Len(model_specs) : model_specs[i] = t

ValidationPassed == pc \notin {"call", "create"} /\ thrown.site # "validate"

\* C12: once validation has passed there is exactly one model instance per
\* model specification, created before the first step (also when
\* num_steps = 0); no model is created before validation or during the loop
\* (the only other objects are the copies held by history), and the updates
\* of every step act on those instances.
C12_OneModelPerSpec ==
    LET n == Len(model_specs) IN
        /\ pc \in {"call", "create"} => model_heap = <<>> /\ models = EmptyMap
        /\ ValidationPassed =>
              /\ DOMAIN models = Range(model_specs)
              /\ \A i \in 1..n : models[model_specs[i]] = i
              /\ Len(model_heap) = n * (1 + Len(history))
              /\ \A k \in 1..Len(history) :
                    \A t \in DOMAIN history[k].models : history[k].models[t] > n
        /\ pc = "optimize" =>
              model_heap[tag_idx].data = datasets[model_specs[tag_idx]]
        /\ pc = "returned" => result.models = models

C12_Witness ==
    /\ pc = "optimize"
    /\ step = 1
    /\ tag_idx = 2
    /\ model_specs = <<"bar", "foo">>
    /\ model_heap[2].data = datasets["foo"]
    /\ Len(model_heap[1].data) = 3

SameStepAndTag(c1, c2) == c1.step = c2.step /\ c1.tag = c2.tag

\* C19: within a step, each model in the order of the model mapping gets
\* update, with the merged dataset of its tag, and then optimize; an
\* optimize always directly follows the update of the same tag, the next
\* tag's update or the next step's acquire comes only after it, and a step
\* that completed has updated and optimized every model.
C19_UpdateThenOptimizePerTag ==
    /\ \A i \in 1..Len(calls) :
          calls[i].op = "optimize" =>
              /\ i > 1
              /\ calls[i - 1].op = "update"
              /\ SameStepAndTag(calls[i - 1], calls[i])
    /\ \A i \in 1..(Len(calls) - 1) :
          /\ calls[i].op = "update" =>
                calls[i + 1].op = "optimize" /\ SameStepAndTag(calls[i], calls[i + 1])
          /\ calls[i].op = "optimize" =>
                \/ /\ calls[i + 1].op = "update"
                   /\ calls[i + 1].step = calls[i].step
                   /\ TagIndex(calls[i + 1].tag) = TagIndex(calls[i].tag) + 1
                \/ /\ calls[i + 1].op = "acquire"
                   /\ calls[i + 1].step = calls[i].step + 1
                   /\ TagIndex(calls[i].tag) = Len(model_specs)
    /\ pc = "optimize" =>
          LET tag == model_specs[tag_idx] IN
              /\ Last(calls).op = "update" /\ Last(calls).tag = tag
              /\ model_heap[models[tag]].data = datasets[tag]
              /\ model_heap[models[tag]].refit = FALSE
    /\ ValidationPassed =>
          \A k \in 0..(step - 1) : \A t \in Range(model_specs) :
              \E i \in 1..Len(calls) :
                  /\ calls[i].op = "optimize"
                  /\ calls[i].step = k
                  /\ calls[i].tag = t

C19_Witness ==
    /\ pc = "optimize"
    /\ step = 1
    /\ tag_idx = 2
    /\ model_specs = <<"foo", "bar">>
    /\ Len(calls) = 11
    /\ calls[10].op = "optimize" /\ calls[10].tag = "foo"
    /\ calls[11].op = "update" /\ calls[11].tag = "bar"
    /\ model_heap[models["bar"]].data = datasets["bar"]

\* C20: in each step the observer is called directly after acquire has
\* returned, with the query points acquire returned in that step; with
\* tracking the snapshot of the step is taken before acquire; no model is
\* touched before the merge, and the models are updated only once the
\* observer's output of the step has been merged into datasets.
C20_StepOrder ==
    /\ \A i \in 1..Len(calls) :
          /\ calls[i].op = "observer" =>
                /\ i > 1
                /\ calls[i - 1].op = "acquire"
                /\ calls[i - 1].step = calls[i].step
                /\ calls[i].arg = calls[i - 1].qp
          /\ calls[i].op = "update" =>
                \E j \in 1..(i - 1) :
                    calls[j].op = "observer" /\ calls[j].step = calls[i].step
          /\ (calls[i].op = "acquire" /\ track_state) =>
                Len(history) >= calls[i].step + 1
    /\ pc \in {"snapshot", "acquire", "observe", "merge"} =>
          /\ Deref(models) = Last(entered).models
          /\ datasets = Last(entered).datasets
    /\ pc \in {"update", "optimize"} =>
          /\ Last(calls).op \in {"observer", "update", "optimize"}
          /\ DOMAIN datasets = DOMAIN observer_output
          /\ \A t \in DOMAIN observer_output :
                /\ observer_output[t][1][1] = query_points
                /\ datasets[t] = Last(entered).datasets[t] \o observer_output[t]

C20_Witness ==
    /\ pc = "optimize"
    /\ step = 1
    /\ query_points = 1
    /\ calls[1].qp = 0
    /\ \E i \in 2..Len(calls) :
          /\ calls[i].op = "observer" /\ calls[i].step = 1 /\ calls[i].arg = 1
          /\ calls[i - 1].op = "acquire" /\ calls[i - 1].qp = 1
    /\ datasets["foo"] = <<<<0, 0>>, <<0, 1>>, <<1, 0>>>>

Distinct(q) == \A i, j \in 1..Len(q) : i # j => q[i] # q[j]

InSpace(p) ==
    IF space.kind = "box"
    THEN \A i \in Dims : space.lower[i] <= p[i] /\ p[i] <= space.upper[i]
    ELSE p \in space.points

\* C13: sample(n) returns exactly n pairwise distinct points of the space;
\* on a discrete space of m points it succeeds for every n <= m and fails
\* with ValueError for every n > m.
C13_SampleUniqueContained ==
    space_out.op = "sample" =>
        IF space.kind = "discrete" /\ space_out.n > Cardinality(space.points)
        THEN space_out.error = "ValueError" /\ space_out.samples = <<>>
        ELSE /\ space_out.error = "None"
             /\ Len(space_out.samples) = space_out.n
             /\ \A i \in 1..space_out.n : InSpace(space_out.samples[i])
             /\ Distinct(space_out.samples)

C13_Witness ==
    /\ space_out.op = "sample"
    /\ space.kind = "discrete"
    /\ Cardinality(space.points) = 3
    /\ space_out.n = 3
    /\ space_out.error = "None"
    /\ Len(space_out.samples) = 3

\* C14: a point of the shape of the bounds is contained in a Box exactly
\* when it lies between the bounds in every component; the bounds themselves
\* are contained.
C14_BoxContainsIffWithinBounds ==
    (space.kind = "box" /\ space_out.op = "contains" /\ space_out.error = "None") =>
        LET pt == space_out.point IN
            /\ space_out.contained <=>
                  \A i \in Dims : space.lower[i] <= pt[i] /\ pt[i] <= space.upper[i]
            /\ pt \in {space.lower, space.upper} => space_out.contained
            /\ (\E i \in Dims : pt[i] < space.lower[i] \/ pt[i] > space.upper[i]) =>
                  ~ space_out.contained

C14_Witness ==
    /\ space.kind = "box"
    /\ space.lower = <<0, 0>>
    /\ space.upper = <<1, 2>>
    /\ space_out.op = "contains"
    /\ space_out.point = <<1, 2>>
    /\ space_out.contained

\* C15: Box.discretize(n) gives a discrete space of exactly n points, all in
\* the box; its sample(n) returns n points of the box and its sample(n + 1)
\* fails with ValueError.
C15_DiscretizeHoldsNPoints ==
    space_origin # NoOrigin =>
        /\ space.kind = "discrete"
        /\ Cardinality(space.points) = space_origin.n
        /\ \A p \in space.points :
              \A i \in Dims :
                  space_origin.lower[i] <= p[i] /\ p[i] <= space_origin.upper[i]
        /\ (space_out.op = "sample" /\ space_out.n = space_origin.n) =>
              /\ space_out.error = "None"
              /\ Len(space_out.samples) = space_origin.n
              /\ \A k \in 1..Len(space_out.samples) :
                    \A i \in Dims :
                        /\ space_origin.lower[i] <= space_out.samples[k][i]
                        /\ space_out.samples[k][i] <= space_origin.upper[i]
        /\ (space_out.op = "sample" /\ space_out.n = space_origin.n + 1) =>
              space_out.error = "ValueError"

C15_Witness ==
    /\ space_origin.n = 2
    /\ space_origin.lower = <<0, 1>>
    /\ space_origin.upper = <<1, 2>>
    /\ space_out.op = "sample"
    /\ space_out.n = 3
    /\ space_out.error = "ValueError"

\* C16: a builder lifted with using(tag) fails with KeyError at preparation
\* time, before any acquisition function exists to evaluate, whenever the tag
\* is absent from a mapping; with the tag present the wrapped builder receives
\* exactly datasets[tag] and models[tag].
C16_UsingLooksUpExactlyTag ==
    acq.op = "using" =>
        IF acq.tag \in DOMAIN acq.datasets /\ acq.tag \in DOMAIN acq.models
        THEN /\ acq.error = "None"
             /\ acq.prepared
             /\ acq.dataset = acq.datasets[acq.tag]
             /\ acq.model = acq.models[acq.tag]
        ELSE /\ acq.error = "KeyError"
             /\ ~ acq.prepared
             /\ ~ acq.evaluated

C16_Witness ==
    /\ acq.op = "using"
    /\ acq.evaluated
    /\ acq.tag = "foo"
    /\ DOMAIN acq.datasets = AllTags
    /\ DOMAIN acq.models = AllTags
    /\ acq.datasets["foo"] # acq.datasets["bar"]
    /\ acq.models["foo"] # acq.models["bar"]
    /\ acq.dataset = acq.datasets["foo"]
    /\ acq.model = acq.models["foo"]

\* the rows of the prepared dataset scored at or above the bound
AtOrAboveBound ==
    {i \in 1..Len(acq.dataset) : acq.scores[acq.dataset[i][1]] >= acq.bound}

\* C17: the eta of a prepared ExpectedConstrainedImprovement is the minimum
\* observation among the rows of the named dataset whose constraint score is
\* greater than or equal to the bound; rows scored below it do not count.
C17_EtaOverFeasibleOnly ==
    (acq.op = "eci" /\ acq.prepared) =>
        /\ acq.dataset = acq.datasets[acq.tag]
        /\ \E i \in AtOrAboveBound : acq.eta = acq.dataset[i][2]
        /\ \A i \in AtOrAboveBound : acq.eta <= acq.dataset[i][2]

C17_Witness ==
    /\ acq.op = "eci"
    /\ acq.prepared
    /\ acq.dataset = << <<0, 0>>, <<1, 2>> >>
    /\ acq.bound = 1
    /\ acq.scores[0] = 0
    /\ acq.scores[1] = 1
    /\ acq.eta = 2

\* the rows of the named dataset of an ExpectedConstrainedImprovement call
NamedRows == acq.datasets[acq.tag]

\* C18: prepare_acquisition_function of ExpectedConstrainedImprovement fails
\* with ValueError, and returns no acquisition function, when the named
\* dataset is empty and when none of its points is scored at or above the
\* bound.
C18_InsufficientDataFails ==
    (/\ acq.op = "eci"
     /\ acq.tag \in DOMAIN acq.datasets
     /\ acq.tag \in DOMAIN acq.models
     /\ \/ NamedRows = <<>>
        \/ \A i \in 1..Len(NamedRows) : acq.scores[NamedRows[i][1]] < acq.bound) =>
        /\ acq.error = "ValueError"
        /\ ~ acq.prepared
        /\ ~ acq.evaluated
        /\ acq.eta = Infinity

C18_Witness ==
    /\ acq.op = "eci"
    /\ acq.error = "ValueError"
    /\ acq.tag = "foo"
    /\ Len(acq.datasets["foo"]) = 2
    /\ acq.bound = 2
    /\ \A p \in Points : acq.scores[p] = 1

\* the rows the observer returned for tag t in steps 0 .. n-1, in step order
RECURSIVE Observed(_, _)
Observed(t, n) ==
    IF n = 0 THEN <<>>
    ELSE Observed(t, n - 1) \o (IF t \in DOMAIN outputs[n] THEN outputs[n][t] ELSE <<>>)

\* C21: when all num_steps steps completed without an exception, the
\* Result's datasets have the tags of the caller's datasets, and for every
\* tag the caller's dataset followed by the observer's outputs for that tag
\* of steps 0 .. num_steps-1 in step order.
C21_ResultAccumulatesObservations ==
    (pc = "returned" /\ thrown = NoError) =>
        /\ Len(outputs) = num_steps
        /\ DOMAIN result.datasets = DOMAIN datasets_arg
        /\ \A t \in DOMAIN datasets_arg :
              result.datasets[t] = datasets_arg[t] \o Observed(t, num_steps)

C21_Witness ==
    /\ pc = "returned"
    /\ thrown = NoError
    /\ num_steps = 2
    /\ DOMAIN datasets_arg = AllTags
    /\ result.datasets["foo"] = << <<0, 0>>, <<0, 1>>, <<1, 0>> >>
    /\ result.datasets["bar"] = << <<0, 0>>, <<0, 0>>, <<1, 1>> >>

\* the datasets after the merge of the step that raised
MergedAtFailure ==
    [t \in DOMAIN observer_output |->
        entered[thrown.step + 1].datasets[t] \o observer_output[t]]

\* C22: when a model's optimize raises after its update succeeded, that
\* model is left updated with the merged dataset of its tag and not refit,
\* the models of the tags after it are as they entered the step and were not
\* called in it, the models of the tags before it stay updated and refit,
\* and the merge stays; a Result returned carries exactly these.
C22_PartialStepSurfaced ==
    (pc \in {"returned", "raised"} /\ thrown.site = "optimize") =>
        LET k == thrown.step
            i == TagIndex(thrown.tag)
            before == entered[k + 1]
        IN  /\ datasets = MergedAtFailure
            /\ model_heap[models[thrown.tag]] =
                  [data |-> datasets[thrown.tag], refit |-> FALSE]
            /\ \A j \in 1..Len(model_specs) :
                  LET t == model_specs[j] IN
                      /\ j < i => model_heap[models[t]] =
                                      [data |-> datasets[t], refit |-> TRUE]
                      /\ j > i =>
                            /\ model_heap[models[t]] = before.models[t]
                            /\ \A c \in 1..Len(calls) :
                                  ~ (calls[c].step = k /\ calls[c].tag = t)
            /\ pc = "returned" =>
                  /\ result.error = thrown
                  /\ result.datasets = datasets
                  /\ result.models = models

C22_Witness ==
    /\ pc = "returned"
    /\ result.error.site = "optimize"
    /\ result.error.step = 1
    /\ model_specs = <<"foo", "bar">>
    /\ result.error.tag = "foo"
    /\ model_heap[result.models["foo"]] =
          [data |-> result.datasets["foo"], refit |-> FALSE]
    /\ Len(model_heap[result.models["bar"]].data) = 2
    /\ model_heap[result.models["bar"]].refit

\* C25 (as stated): when step k fails with tracking enabled, the returned
\* history has k+1 entries if the failure came after the snapshot and k
\* entries if the snapshot itself raised, and in both cases its last entry
\* is the state entering the failing step.
C25_LastEntryIsFailingStep ==
    (pc = "returned" /\ result.error # NoError /\ track_state) =>
        LET k == result.error.step IN
            /\ Len(history) = IF result.error.site = "snapshot" THEN k ELSE k + 1
            /\ Len(history) <= Len(entered)
            /\ history # <<>> =>
                  /\ Last(history).datasets = entered[k + 1].datasets
                  /\ Deref(Last(history).models) = entered[k + 1].models
                  /\ Last(history).acquisition_state = entered[k + 1].acquisition_state

\* C25 (amended): when step k fails with tracking enabled, the returned
\* history has k+1 entries and its last entry is the state entering step k
\* if the failure came after the snapshot; if the snapshot itself raised it
\* has k entries, the last one (if any) being the state entering step k-1;
\* history is never longer than the number of steps started.
C25_HistoryLengthAtFailure ==
    /\ Len(history) <= Len(entered)
    /\ (pc = "returned" /\ result.error # NoError /\ track_state) =>
          LET k == result.error.step
              n == IF result.error.site = "snapshot" THEN k ELSE k + 1
          IN  /\ Len(history) = n
              /\ Len(entered) = k + 1
              /\ n >= 1 =>
                    /\ history[n].datasets = entered[n].datasets
                    /\ Deref(history[n].models) = entered[n].models
                    /\ history[n].acquisition_state = entered[n].acquisition_state

C25_Witness ==
    /\ pc = "returned"
    /\ track_state
    /\ result.error.site = "snapshot"
    /\ result.error.step = 1
    /\ Len(history) = 1
    /\ history[1].datasets = datasets_arg
    /\ result.datasets # datasets_arg

\* optimize has been left, by a return or by an exception
Left == pc \in {"returned", "raised"}

\* C28: optimize always ends; it never starts more than num_steps steps nor
\* a step of index num_steps or more, and it returns either once step
\* num_steps-1 is complete or in the first step that raises.
C28_Terminates ==
    /\ <>Left
    /\ [](/\ Len(entered) <= num_steps
          /\ pc \in {"snapshot", "acquire", "observe", "merge", "update", "optimize"} =>
                step < num_steps /\ Len(entered) = step + 1
          /\ pc = "returned" =>
                IF thrown = NoError
                THEN step = num_steps /\ Len(entered) = num_steps
                ELSE thrown.step < num_steps /\ Len(entered) = thrown.step + 1)

C28_Witness ==
    /\ pc = "returned"
    /\ thrown = NoError
    /\ num_steps = MaxSteps
    /\ step = MaxSteps
    /\ Len(entered) = MaxSteps
    /\ Cardinality(CallsOf("acquire")) = MaxSteps

\* C26: a call of BayesianOptimizer.optimize without a rule and without a
\* state runs with the default EfficientGlobalOptimization rule, and its
\* acquisition state is None at every point: in the local variable, in every
\* state handed to and returned by acquire, and in every history entry.
C26_DefaultRuleKeepsNoState ==
    (b_rule_arg = "None" /\ state_arg = NoneState /\ b_pc # "idle") =>
        /\ b_rule = "EGO"
        /\ b_state = NoneState
        /\ \A i \in 1..Len(b_calls) :
              b_calls[i].op = "acquire" =>
                  b_calls[i].arg = NoneState /\ b_calls[i].st = NoneState
        /\ \A k \in 1..Len(b_history) : b_history[k].acquisition_state = NoneState

C26_Witness ==
    /\ b_rule_arg = "None"
    /\ b_rule = "EGO"
    /\ b_pc = "returned"
    /\ b_result.error = NoError
    /\ num_steps = 2
    /\ Len(b_history) = 2
    /\ b_history[2].acquisition_state = NoneState
    /\ history[2].acquisition_state # NoneState

\* C27: a call of BayesianOptimizer.optimize without a rule but with a
\* state raises TypeError to the caller, whatever num_steps is: no Result is
\* returned, no model has been instantiated, no history entry made, and
\* neither the rule nor the observer has been called.
C27_StateWithoutRuleIsTypeError ==
    (b_rule_arg = "None" /\ state_arg # NoneState) =>
        /\ b_pc = "raised"
        /\ b_propagated = Error("TypeError", "validate", -1, "-")
        /\ b_result.error = NoError
        /\ b_model = 0
        /\ b_heap = <<>>
        /\ b_history = <<>>
        /\ b_calls = <<>>

C27_Witness ==
    /\ b_rule_arg = "None"
    /\ state_arg # NoneState
    /\ b_pc = "raised"
    /\ b_propagated.kind = "TypeError"
    /\ num_steps = 0

\* C23: a history entry holds copies of the models and of the acquisition
\* state: its objects are not those the loop goes on using, and no later
\* step (a model's update or optimize, a call of the rule) changes the entry,
\* the state of its models or the value of its acquisition state.
C23_EntriesAreIndependentCopies ==
    /\ [](\A k \in 1..Len(history) :
             /\ \A t \in DOMAIN history[k].models : history[k].models[t] # models[t]
             /\ history_refs[k].state # 0 =>
                   /\ history_refs[k].state # state_ref
                   /\ history_refs[k].state # ArgStateRef(state_arg)
             /\ StateValue(state_heap, history_refs[k].state) =
                   history[k].acquisition_state)
    /\ [][\A k \in 1..Len(history) :
             /\ history'[k] = history[k]
             /\ history_refs'[k] = history_refs[k]
             /\ \A t \in DOMAIN history[k].models :
                   model_heap'[history[k].models[t]] = model_heap[history[k].models[t]]
             /\ StateValue(state_heap', history_refs[k].state) =
                   StateValue(state_heap, history_refs[k].state)]_vars

C23_Witness ==
    /\ rule_in_place
    /\ state_arg = 0
    /\ pc = "returned"
    /\ thrown = NoError
    /\ Len(history) = 2
    /\ state_ref = 1
    /\ state_heap[1] = 2
    /\ StateValue(state_heap, history_refs[1].state) = 0
    /\ StateValue(state_heap, history_refs[2].state) = 1
    /\ \A t \in DOMAIN models :
          /\ model_heap[history[1].models[t]] = NewModel
          /\ model_heap[models[t]].refit

\* the datasets a dict object holds
DerefDatasets(ref) ==
    [t \in DOMAIN mapping_heap[ref] |-> dataset_heap[mapping_heap[ref][t]]]

\* C24: the caller's datasets mapping and its Datasets stay as they were
\* passed; a history entry refers to the mapping that entered its step (the
\* first one to the caller's own), and that mapping still holds the datasets
\* entering the step after every later merge; a merge binds `datasets` to a
\* new mapping of new Datasets.  The same holds for the dataset of the
\* single-objective variant.
C24_DatasetsNeverMutated ==
    /\ mapping_heap[1] = ArgMapping(datasets_arg)
    /\ DerefDatasets(1) = datasets_arg
    /\ DerefDatasets(datasets_ref) = datasets
    /\ \A k \in 1..Len(history) :
          /\ DerefDatasets(history_refs[k].datasets) = entered[k].datasets
          /\ history[k].datasets = entered[k].datasets
          /\ \A j \in 1..(k - 1) : history_refs[j].datasets # history_refs[k].datasets
    /\ history # <<>> => history_refs[1].datasets = 1
    /\ \A r \in 1..(datasets_ref - 1) :
          \A t \in DOMAIN mapping_heap[datasets_ref], u \in DOMAIN mapping_heap[r] :
              mapping_heap[datasets_ref][t] # mapping_heap[r][u]
    /\ b_dataset_heap # <<>> =>
          /\ b_dataset_heap[1] = datasets_arg[TheTag]
          /\ b_dataset_heap[b_dataset_ref] = b_dataset
          /\ \A k \in 1..Len(b_history) :
                /\ b_dataset_heap[b_history_refs[k]] = b_history[k].dataset
                /\ b_history[k].dataset = history[k].datasets[TheTag]
          /\ b_history # <<>> => b_history_refs[1] = 1

C24_Witness ==
    /\ pc = "returned"
    /\ thrown = NoError
    /\ b_pc = "returned"
    /\ num_steps = 2
    /\ Len(history) = 2
    /\ datasets_ref = 3
    /\ Len(datasets[TheTag]) = 3
    /\ DerefDatasets(1) = datasets_arg
    /\ Len(DerefDatasets(history_refs[2].datasets)[TheTag]) = 2
    /\ Len(b_history) = 2
    /\ b_dataset_ref = 3
    /\ Len(b_dataset_heap[b_history_refs[2]]) = 2
    /\ Len(b_dataset_heap[1]) = 1

====
